---- MODULE Spec2Model ----
(***************************************************************************)
(* Model of src/src/git_utils.rs: the Git facade (Git::open,               *)
(* Git::new_branch), the Repository operations, each one `git` subprocess, *)
(* and the output interpreter OutputHandler::handle_git_cmd.               *)
(*                                                                         *)
(* The external `git` binary is the environment.  Each invocation either   *)
(* behaves as git does on the working copy ("normal") or ends in one of    *)
(* the other outcomes std::process::Command::output can deliver: the       *)
(* binary cannot be spawned, the process dies without writing anything,    *)
(* it fails with a diagnostic, or a captured stream is not valid UTF-8.    *)
(*                                                                         *)
(* Text is a sequence of tokens <<kind, value>>; a byte stream is a        *)
(* sequence of the same tokens in which BAD stands for a byte sequence     *)
(* that is not valid UTF-8.                                                *)
(***************************************************************************)
EXTENDS Integers, Sequences, FiniteSets, TLC

VARIABLES
    isRepo,          \* the path denotes a working copy git recognises
    branches,        \* the working copy's local branches (refs/heads/*)
    head,            \* the current branch, or "HEAD" when detached
    handle,          \* the Git facade: "none", "open", "error", "panicked"
    openRes,         \* the value Git::open returned
    openMode,        \* how the tool behaved in Git::open's invocation
    pc,              \* pc[p]: position of workflow run p in Git::new_branch
    b_name,          \* b_name[p]: the argument of run p
    current_branch,  \* current_branch[p]: the local of Git::new_branch
    result,          \* result[p]: what run p returned (or its panic)
    calls,           \* calls[p]: the git invocations run p issued, in order
    modes,           \* modes[p]: how the tool behaved in each of them
    rets,            \* rets[p]: what each Repository operation returned
    notes,           \* notes[p]: the lines run p handed to log.info
    trace,           \* trace[p]: run p's invocations and log lines, in order
    pre,             \* pre[p]: branches and head when run p was called
    post,            \* post[p]: branches and head when run p ended
    out,             \* handler specification: the Output under test
    hres             \* handler specification: handle_git_cmd(out)

vars == <<isRepo, branches, head, handle, openRes, openMode, pc, b_name, current_branch,
          result, calls, modes, rets, notes, trace, pre, post, out, hres>>

(***************************************************************************)
(* Bounds                                                                  *)
(***************************************************************************)
NumRuns == 2
MaxStream == 2

\* the branch names in play
Names == {"main", "feature/x"}
Procs == 1..NumRuns
DETACHED == "HEAD"

(***************************************************************************)
(* Text and byte streams                                                   *)
(***************************************************************************)
NL == <<"ws", "\n">>
BAD == <<"bad", "0xff">>
Name(n) == <<"name", n>>
RefLine(n) == <<"ref", n>>
Msg(m) == <<"msg", m>>

ERR_MSG == "Error executing git command"

Ok(v) == [tag |-> "Ok", kind |-> "", val |-> v]
Err(k, m) == [tag |-> "Err", kind |-> k, val |-> m]
Panic(m) == [tag |-> "Panic", kind |-> "", val |-> m]
NoResult == [tag |-> "None", kind |-> "", val |-> <<>>]

\* String::from_utf8: the text, or a Utf8Error
from_utf8(bytes) ==
    IF \E i \in 1..Len(bytes) : bytes[i] = BAD
    THEN [ok |-> FALSE, text |-> <<Msg("invalid utf-8 sequence")>>]
    ELSE [ok |-> TRUE, text |-> bytes]

RECURSIVE trim_start(_)
trim_start(t) ==
    IF t # <<>> /\ Head(t)[1] = "ws" THEN trim_start(Tail(t)) ELSE t

RECURSIVE trim_end(_)
trim_end(t) ==
    IF t # <<>> /\ t[Len(t)][1] = "ws"
    THEN trim_end(SubSeq(t, 1, Len(t) - 1)) ELSE t

\* str::trim
trim(t) == trim_end(trim_start(t))

(***************************************************************************)
(* The output interpreter                                                  *)
(***************************************************************************)
Output(sp, ok, so, se) ==
    [spawned |-> sp, success |-> ok, stdout |-> so, stderr |-> se]

handle_git_cmd(o) ==
    IF ~o.success /\ o.stderr # <<>>
    THEN Err("InvalidData", from_utf8(o.stderr).text)
    ELSE LET d == from_utf8(o.stdout)
         IN  IF d.ok THEN Ok(d.text) ELSE Panic(d.text)

\* Command::output().expect(ERR_MSG).handle_git_cmd()
run_git(o) ==
    IF ~o.spawned THEN Panic(<<Msg(ERR_MSG)>>) ELSE handle_git_cmd(o)

(***************************************************************************)
(* The external tool                                                       *)
(***************************************************************************)
Mode == {"normal", "silent", "diag", "baddiag", "badout", "nospawn"}

Repo(r, bs, h) == [isRepo |-> r, branches |-> bs, head |-> h]

\* the outcomes that are not git's answer to the command
Faulty(mode) ==
    CASE mode = "nospawn" -> Output(FALSE, FALSE, <<>>, <<>>)
      [] mode = "silent"  -> Output(TRUE, FALSE, <<>>, <<>>)
      [] mode = "diag"    -> Output(TRUE, FALSE, <<>>, <<Msg("fatal: failed"), NL>>)
      [] mode = "baddiag" -> Output(TRUE, FALSE, <<>>, <<BAD>>)
      [] mode = "badout"  -> Output(TRUE, TRUE, <<BAD, NL>>, <<>>)

NotARepo == Output(TRUE, FALSE, <<>>, <<Msg("fatal: not a git repository"), NL>>)

\* git -C <path> rev-parse
git_rev_parse(repo, mode) ==
    IF mode # "normal" THEN Faulty(mode)
    ELSE IF ~repo.isRepo THEN NotARepo
    ELSE Output(TRUE, TRUE, <<>>, <<>>)

\* git -C <path> show-ref refs/heads/<b_name>
git_show_ref(repo, name, mode) ==
    IF mode # "normal" THEN Faulty(mode)
    ELSE IF ~repo.isRepo THEN NotARepo
    ELSE IF name \in repo.branches
         THEN Output(TRUE, TRUE, <<RefLine(name), NL>>, <<>>)
         ELSE Output(TRUE, FALSE, <<>>, <<>>)

\* git -C <path> rev-parse --abbrev-ref HEAD
git_abbrev_ref(repo, mode) ==
    IF mode # "normal" THEN Faulty(mode)
    ELSE IF ~repo.isRepo THEN NotARepo
    ELSE Output(TRUE, TRUE, <<Name(repo.head), NL>>, <<>>)

\* the start point names a commit: a local branch or HEAD
Resolves(repo, start) ==
    /\ Len(start) = 1
    /\ start[1][1] = "name"
    /\ start[1][2] \in repo.branches \cup {DETACHED}

CheckoutCreates(repo, name, start, mode) ==
    /\ mode = "normal"
    /\ repo.isRepo
    /\ name \notin repo.branches
    /\ Resolves(repo, start)

\* git -C <path> checkout -b <b_name> <current_branch>
git_checkout_b(repo, name, start, mode) ==
    IF mode # "normal" THEN Faulty(mode)
    ELSE IF ~repo.isRepo THEN NotARepo
    ELSE IF name \in repo.branches
         THEN Output(TRUE, FALSE, <<>>, <<Msg("fatal: a branch named already exists"), NL>>)
    ELSE IF ~Resolves(repo, start)
         THEN Output(TRUE, FALSE, <<>>, <<Msg("fatal: not a valid object name"), NL>>)
    ELSE Output(TRUE, TRUE, <<>>, <<Msg("Switched to a new branch"), NL>>)

\* the working copy after git checkout -b
checkout_effect(repo, name, start, mode) ==
    IF CheckoutCreates(repo, name, start, mode)
    THEN Repo(repo.isRepo, repo.branches \cup {name}, name)
    ELSE repo

(***************************************************************************)
(* Repository                                                              *)
(***************************************************************************)
Repository_open(repo, mode) == run_git(git_rev_parse(repo, mode))

Repository_new_branch(repo, name, start, mode) ==
    run_git(git_checkout_b(repo, name, start, mode))

Repository_current_branch(repo, mode) == run_git(git_abbrev_ref(repo, mode))

AlreadyExists(name) ==
    Err("InvalidData", <<Msg("Branch"), Name(name), Msg("already exists!")>>)

Repository_branch_exists(repo, name, mode) ==
    LET res == run_git(git_show_ref(repo, name, mode))
    IN  IF res.tag # "Ok" THEN res
        ELSE IF res.val # <<>> THEN AlreadyExists(name)
        ELSE res

(***************************************************************************)
(* Git                                                                     *)
(***************************************************************************)
TheRepo == Repo(isRepo, branches, head)
Snapshot == [branches |-> branches, head |-> head]

Terminal == {"done", "failed", "panicked"}

\* (mutation of Try) an Err is dropped and the caller carries on
Try_swallow(r, next) ==
    CASE r.tag = "Panic" -> "panicked"
      [] OTHER -> next

\* the ? operator: Ok continues at next, Err returns, a panic unwinds
Try(r, next) ==
    CASE r.tag = "Ok" -> next
      [] r.tag = "Err" -> "failed"
      [] OTHER -> "panicked"

after_open(r) ==
    CASE r.tag = "Ok" -> "open"
      [] r.tag = "Err" -> "error"
      [] OTHER -> "panicked"

\* (mutation of after_branch_exists) the result of the check is not looked at
after_branch_exists_unchecked(r) ==
    IF r.tag = "Panic" THEN "panicked" ELSE "current"

after_branch_exists(r) == Try(r, "current")
after_current_branch(r) == Try(r, "create")
\* (mutation of after_new_branch) the result of the create is not looked at
after_new_branch_unchecked(r) ==
    IF r.tag = "Panic" THEN "panicked" ELSE "done"

after_new_branch(r) == Try(r, "done")

note_checking(name) ==
    <<Msg("Checking if branch"), Name(name), Msg("already exists...")>>
note_creating(name, cur) ==
    <<Msg("Creating new git branch"), Name(name), Msg("from")>> \o cur
note_created(name, cur) ==
    <<Msg("Branch"), Name(name), Msg("successfully created from")>> \o cur

\* an entry of trace: a line handed to log.info, or a git invocation with
\* its branch argument and whether it changed the working copy
NoteEv(text) == [ev |-> "note", cmd |-> "log.info", text |-> text, wrote |-> FALSE]
CallEv(cmd, arg, w) == [ev |-> "call", cmd |-> cmd, text |-> arg, wrote |-> w]

Init ==
    /\ isRepo \in BOOLEAN
    /\ IF isRepo
       THEN /\ branches \in (SUBSET Names) \ {{}}
            /\ head \in branches \cup {DETACHED}
       ELSE /\ branches = {}
            /\ head = DETACHED
    /\ handle = "none"
    /\ openRes = NoResult
    /\ openMode = "none"
    /\ pc = [p \in Procs |-> "idle"]
    /\ b_name = [p \in Procs |-> ""]
    /\ current_branch = [p \in Procs |-> <<>>]
    /\ result = [p \in Procs |-> NoResult]
    /\ calls = [p \in Procs |-> <<>>]
    /\ modes = [p \in Procs |-> <<>>]
    /\ rets = [p \in Procs |-> <<>>]
    /\ notes = [p \in Procs |-> <<>>]
    /\ trace = [p \in Procs |-> <<>>]
    /\ pre = [p \in Procs |-> [branches |-> {}, head |-> DETACHED]]
    /\ post = [p \in Procs |-> [branches |-> {}, head |-> DETACHED]]
    /\ out = Output(TRUE, TRUE, <<>>, <<>>)
    /\ hres = NoResult

\* Git::open(project_path, args)
Git_open(mode) ==
    /\ handle = "none"
    /\ LET r == Repository_open(TheRepo, mode)
       IN  /\ openRes' = r
           /\ openMode' = mode
           /\ handle' = after_open(r)
    /\ UNCHANGED <<isRepo, branches, head, pc, b_name, current_branch, result,
                   calls, modes, rets, notes, trace, pre, post, out, hres>>

\* one caller, one invocation at a time; a panic ends the program
MayStart(p) ==
    /\ handle = "open"
    /\ pc[p] = "idle"
    /\ \A q \in Procs : q < p => pc[q] \in {"done", "failed"}

\* Git::new_branch(b_name): entry, up to the first invocation
Enter(p, name) ==
    /\ b_name' = [b_name EXCEPT ![p] = name]
    /\ notes' = [notes EXCEPT ![p] = <<note_checking(name)>>]
    /\ trace' = [trace EXCEPT ![p] = <<NoteEv(note_checking(name))>>]
    /\ pre' = [pre EXCEPT ![p] = Snapshot]
    /\ pc' = [pc EXCEPT ![p] = "exists"]
    /\ UNCHANGED <<isRepo, branches, head, handle, openRes, openMode, current_branch,
                   result, calls, modes, rets, post, out, hres>>

Start(p, name) == MayStart(p) /\ Enter(p, name)

\* (mutation of Record) a failing step's error is replaced by one of the
\* facade's own
Record_rewrapped(p, cmd, mode, r, next) ==
    /\ calls' = [calls EXCEPT ![p] = Append(@, cmd)]
    /\ modes' = [modes EXCEPT ![p] = Append(@, mode)]
    /\ rets' = [rets EXCEPT ![p] = Append(@, r)]
    /\ pc' = [pc EXCEPT ![p] = next]
    /\ result' = [result EXCEPT ![p] =
                     IF next = "done" THEN Ok(<<>>)
                     ELSE IF next = "failed" THEN Err("Other", <<Msg(ERR_MSG)>>)
                     ELSE IF next \in Terminal THEN r ELSE @]

\* the bookkeeping every step of Git::new_branch shares
Record(p, cmd, mode, r, next) ==
    /\ calls' = [calls EXCEPT ![p] = Append(@, cmd)]
    /\ modes' = [modes EXCEPT ![p] = Append(@, mode)]
    /\ rets' = [rets EXCEPT ![p] = Append(@, r)]
    /\ pc' = [pc EXCEPT ![p] = next]
    /\ result' = [result EXCEPT ![p] =
                     IF next = "done" THEN Ok(<<>>)
                     ELSE IF next \in Terminal THEN r ELSE @]

\* self.repository.branch_exists(b_name)?
BranchExistsStep(p, mode) ==
    /\ pc[p] = "exists"
    /\ LET r == Repository_branch_exists(TheRepo, b_name[p], mode)
           next == after_branch_exists(r)
       IN  /\ Record(p, "show-ref", mode, r, next)
           /\ trace' = [trace EXCEPT ![p] =
                           Append(@, CallEv("show-ref", <<Name(b_name[p])>>, FALSE))]
           /\ post' = [post EXCEPT ![p] = IF next \in Terminal THEN Snapshot ELSE @]
    /\ UNCHANGED <<isRepo, branches, head, handle, openRes, openMode, b_name,
                   current_branch, notes, pre, out, hres>>

\* let current_branch = self.repository.current_branch()?; log.info(...)
CurrentBranchStep(p, mode) ==
    /\ pc[p] = "current"
    /\ LET r == Repository_current_branch(TheRepo, mode)
           next == after_current_branch(r)
       IN  /\ Record(p, "abbrev-ref", mode, r, next)
           /\ post' = [post EXCEPT ![p] = IF next \in Terminal THEN Snapshot ELSE @]
           /\ IF next = "create"
              THEN /\ current_branch' = [current_branch EXCEPT ![p] = r.val]
                   /\ notes' = [notes EXCEPT ![p] =
                                   Append(@, note_creating(b_name[p], r.val))]
                   /\ trace' = [trace EXCEPT ![p] =
                                   @ \o <<CallEv("abbrev-ref", <<>>, FALSE),
                                          NoteEv(note_creating(b_name[p], r.val))>>]
              ELSE /\ trace' = [trace EXCEPT ![p] =
                                   Append(@, CallEv("abbrev-ref", <<>>, FALSE))]
                   /\ UNCHANGED <<current_branch, notes>>
    /\ UNCHANGED <<isRepo, branches, head, handle, openRes, openMode, b_name, pre,
                   out, hres>>

\* self.repository.new_branch(b_name, current_branch.trim())?; log.info(...); Ok(())
CreateStep(p, mode) ==
    /\ pc[p] = "create"
    /\ LET start == trim(current_branch[p])
           r == Repository_new_branch(TheRepo, b_name[p], start, mode)
           after == checkout_effect(TheRepo, b_name[p], start, mode)
           next == after_new_branch(r)
       IN  /\ Record(p, "checkout", mode, r, next)
           /\ branches' = after.branches
           /\ head' = after.head
           /\ post' = [post EXCEPT ![p] =
                          [branches |-> after.branches, head |-> after.head]]
           /\ notes' = [notes EXCEPT ![p] =
                           IF next = "done"
                           THEN Append(@, note_created(b_name[p], current_branch[p]))
                           ELSE @]
           /\ trace' = [trace EXCEPT ![p] =
                           @ \o <<CallEv("checkout", start, after # TheRepo)>>
                             \o (IF next = "done"
                                 THEN <<NoteEv(note_created(b_name[p], current_branch[p]))>>
                                 ELSE <<>>)]
    /\ UNCHANGED <<isRepo, handle, openRes, openMode, b_name, current_branch, pre,
                   out, hres>>

Next ==
    \/ \E mode \in Mode : Git_open(mode)
    \/ \E p \in Procs, name \in Names : Start(p, name)
    \/ \E p \in Procs, mode \in Mode : BranchExistsStep(p, mode)
    \/ \E p \in Procs, mode \in Mode : CurrentBranchStep(p, mode)
    \/ \E p \in Procs, mode \in Mode : CreateStep(p, mode)

Spec == Init /\ [][Next]_vars

(***************************************************************************)
(* Callers that do not wait for one another: new_branch takes &self and    *)
(* holds no lock, so a second call may enter while the first is between    *)
(* two of its invocations.                                                 *)
(***************************************************************************)
StartConc(p, name) ==
    /\ handle = "open"
    /\ pc[p] = "idle"
    /\ Enter(p, name)

NextConc ==
    \/ \E mode \in Mode : Git_open(mode)
    \/ \E p \in Procs, name \in Names : StartConc(p, name)
    \/ \E p \in Procs, mode \in Mode : BranchExistsStep(p, mode)
    \/ \E p \in Procs, mode \in Mode : CurrentBranchStep(p, mode)
    \/ \E p \in Procs, mode \in Mode : CreateStep(p, mode)

SpecConc == Init /\ [][NextConc]_vars

(***************************************************************************)
(* The sequential program when every spawned git process exits: each step  *)
(* of a call, being a blocking wait for that process, is eventually taken. *)
(***************************************************************************)
SpecLive ==
    /\ Spec
    /\ \A p \in Procs :
           /\ WF_vars(\E mode \in Mode : BranchExistsStep(p, mode))
           /\ WF_vars(\E mode \in Mode : CurrentBranchStep(p, mode))
           /\ WF_vars(\E mode \in Mode : CreateStep(p, mode))

(***************************************************************************)
(* The output interpreter on its own: every Output up to MaxStream tokens  *)
(* per stream.                                                             *)
(***************************************************************************)
Bytes == {Name("main"), NL, BAD}
Streams == UNION {[1..n -> Bytes] : n \in 0..MaxStream}

InitHandler ==
    /\ isRepo = TRUE
    /\ branches = {"main"}
    /\ head = "main"
    /\ handle = "none"
    /\ openRes = NoResult
    /\ openMode = "none"
    /\ pc = [p \in Procs |-> "idle"]
    /\ b_name = [p \in Procs |-> ""]
    /\ current_branch = [p \in Procs |-> <<>>]
    /\ result = [p \in Procs |-> NoResult]
    /\ calls = [p \in Procs |-> <<>>]
    /\ modes = [p \in Procs |-> <<>>]
    /\ rets = [p \in Procs |-> <<>>]
    /\ notes = [p \in Procs |-> <<>>]
    /\ trace = [p \in Procs |-> <<>>]
    /\ pre = [p \in Procs |-> [branches |-> {}, head |-> DETACHED]]
    /\ post = [p \in Procs |-> [branches |-> {}, head |-> DETACHED]]
    /\ out \in {Output(TRUE, ok, so, se) : ok \in BOOLEAN, so \in Streams, se \in Streams}
    /\ hres = NoResult

\* output.handle_git_cmd()
Handle ==
    /\ hres = NoResult
    /\ hres' = handle_git_cmd(out)
    /\ UNCHANGED <<isRepo, branches, head, handle, openRes, openMode, pc, b_name,
                   current_branch, result, calls, modes, rets, notes, trace,
                   pre, post, out>>

NextHandler == Handle

SpecHandler == InitHandler /\ [][NextHandler]_vars

(***************************************************************************)
(* Properties                                                              *)
(***************************************************************************)
Workflow == <<"show-ref", "abbrev-ref", "checkout">>

IsPrefix(s, t) == Len(s) <= Len(t) /\ s = SubSeq(t, 1, Len(s))

Returned(p) == pc[p] \in {"done", "failed"}

\* C1: a run of Git::new_branch issues show-ref, rev-parse --abbrev-ref and
\* checkout -b in that order, each at most once; checkout -b is issued only
\* after branch_exists returned the empty Ok and current_branch returned Ok;
\* no invocation follows a step that did not return Ok; and a run that ends
\* before checkout -b leaves branches and head as they were at its call.
C1_OrderedFailFast ==
    \A p \in Procs :
        /\ IsPrefix(calls[p], Workflow)
        /\ Len(rets[p]) = Len(calls[p])
        /\ Len(calls[p]) = Len(Workflow) =>
               rets[p][1] = Ok(<<>>) /\ rets[p][2].tag = "Ok"
        /\ \A i \in 1..Len(rets[p]) :
               rets[p][i].tag # "Ok" => i = Len(calls[p]) /\ pc[p] \in Terminal
        /\ (pc[p] \in Terminal /\ Len(calls[p]) < Len(Workflow)) =>
               /\ pc[p] # "done"
               /\ post[p] = pre[p]

\* a run that failed at its second step, with the working copy untouched
C1_Witness ==
    \E p \in Procs :
        /\ pc[p] = "failed"
        /\ calls[p] = <<"show-ref", "abbrev-ref">>
        /\ rets[p][2].tag = "Err"
        /\ post[p] = pre[p]

\* C3: when branch_exists reports that the branch exists, the run returns
\* that error at once and branches and head are what they were at its call.
C3_NoMutationOnExists ==
    \A p \in Procs :
        (Len(rets[p]) >= 1 /\ rets[p][1] = AlreadyExists(b_name[p])) =>
            /\ pc[p] = "failed"
            /\ result[p] = AlreadyExists(b_name[p])
            /\ calls[p] = <<"show-ref">>
            /\ post[p] = pre[p]

\* a run refused because its branch was already there
C3_Witness ==
    \E p \in Procs :
        /\ pc[p] = "failed"
        /\ b_name[p] \in pre[p].branches
        /\ result[p] = AlreadyExists(b_name[p])
        /\ post[p] = pre[p]

\* the tool answered every invocation of run p, or died without a word
Undiagnosed(p) ==
    \A i \in 1..Len(modes[p]) : modes[p][i] \in {"normal", "silent"}

\* C2: two calls in succession with the same name, which was not a branch
\* before the first: the first returns Ok when the tool answers each of its
\* invocations, and after a first call that returned Ok the second, its
\* existence query answered, returns the already-exists error without
\* issuing checkout -b.
C2_TwiceInSuccession ==
    \A p \in Procs : \A q \in Procs :
        ( /\ q = p + 1
          /\ Returned(p) /\ pc[q] \in Terminal
          /\ isRepo
          /\ b_name[q] = b_name[p]
          /\ b_name[p] \notin pre[p].branches ) =>
            /\ (\A i \in 1..Len(modes[p]) : modes[p][i] = "normal") =>
                   result[p] = Ok(<<>>)
            /\ (result[p] = Ok(<<>>) /\ modes[q][1] = "normal") =>
                   /\ result[q] = AlreadyExists(b_name[q])
                   /\ calls[q] = <<"show-ref">>

\* C5: an answered existence query reports the branch as existing exactly
\* when the name is a local branch, and reports it as existing after every
\* earlier Repository::new_branch for that name that returned Ok.
C5_ExistsIffInSet ==
    \A q \in Procs :
        (isRepo /\ Len(rets[q]) >= 1 /\ modes[q][1] = "normal") =>
            /\ rets[q][1] = AlreadyExists(b_name[q]) <=> b_name[q] \in pre[q].branches
            /\ rets[q][1] = Ok(<<>>) <=> b_name[q] \notin pre[q].branches
            /\ \A p \in Procs :
                   ( /\ p < q
                     /\ b_name[p] = b_name[q]
                     /\ Len(rets[p]) = Len(Workflow)
                     /\ rets[p][3].tag = "Ok" ) =>
                       rets[q][1] = AlreadyExists(b_name[q])

\* C6: when git cannot be spawned, Repository::open and every Repository
\* operation of the workflow return an Err whose kind is not the kind of
\* the error returned for a failure the tool reported.
C6_SpawnFailureReturnsError ==
    /\ openMode = "nospawn" =>
           openRes.tag = "Err" /\ openRes.kind # "InvalidData"
    /\ \A p \in Procs : \A i \in 1..Len(modes[p]) :
           modes[p][i] = "nospawn" =>
               rets[p][i].tag = "Err" /\ rets[p][i].kind # "InvalidData"

\* run q ended with the error of a failure the tool itself reported
ToolReported(q) ==
    /\ pc[q] = "failed"
    /\ modes[q][Len(modes[q])] \in {"normal", "diag"}
    /\ result[q] # AlreadyExists(b_name[q])

\* C7: the already-exists error of one run and the error of a tool-reported
\* failure of another never have the same kind.
C7_PolicyKindDistinct ==
    \A p \in Procs : \A q \in Procs :
        (pc[p] = "failed" /\ result[p] = AlreadyExists(b_name[p]) /\ ToolReported(q)) =>
            result[p].kind # result[q].kind

\* C9: the facade is open only on a path that is a working copy, whatever
\* the validation invocation did, and no run returns Ok on a path that is
\* not one.
C9_HandleOnlyForWorkingCopy ==
    /\ handle = "open" => isRepo
    /\ (~isRepo /\ handle # "none") => openRes.tag # "Ok"
    /\ \A p \in Procs : pc[p] = "done" => isRepo

\* C10: a run that returned Ok has its branch among the local branches and
\* as the current branch; every failure status of checkout -b, whatever is
\* on its error stream, makes Repository::new_branch return an Err.
C10_SuccessMeansCreated ==
    \A p \in Procs :
        /\ (isRepo /\ pc[p] = "done") =>
               b_name[p] \in post[p].branches /\ post[p].head = b_name[p]
        /\ (Len(rets[p]) = Len(Workflow) /\ modes[p][3] \in {"silent", "diag", "baddiag"}) =>
               rets[p][3].tag = "Err"

(***************************************************************************)
(* Properties of the output interpreter (SpecHandler)                      *)
(***************************************************************************)
Handled == hres # NoResult

Failure(o) == ~o.success /\ o.stderr # <<>>

\* C4: handle_git_cmd returns an Err exactly when the status is a failure
\* and the error stream is not empty, the Err carrying the text of the error
\* stream; for every other Output it returns Ok of the text of standard
\* output.
C4_Classification ==
    Handled =>
        /\ hres.tag = "Err" <=> Failure(out)
        /\ (Failure(out) /\ from_utf8(out.stderr).ok) => hres = Err("InvalidData", out.stderr)
        /\ ~Failure(out) => hres.tag = "Ok"
        /\ (~Failure(out) /\ from_utf8(out.stdout).ok) => hres = Ok(out.stdout)

\* C8: when the stream handle_git_cmd decodes is not valid UTF-8, standard
\* output of an Output classified a success as much as the error stream of
\* one classified a failure, it returns an Err.
C8_DecodeFailureIsReturned ==
    Handled =>
        /\ (Failure(out) /\ ~from_utf8(out.stderr).ok) => hres.tag = "Err"
        /\ (~Failure(out) /\ ~from_utf8(out.stdout).ok) => hres.tag = "Err"

(***************************************************************************)
(* Properties of the workflow's log lines, errors and source branch        *)
(***************************************************************************)
\* trace[p] of a run that returned Ok, for name n and current branch cur
FullTrace(n, cur) ==
    << NoteEv(note_checking(n)),
       CallEv("show-ref", <<Name(n)>>, FALSE),
       CallEv("abbrev-ref", <<>>, FALSE),
       NoteEv(note_creating(n, cur)),
       CallEv("checkout", trim(cur), FALSE),
       NoteEv(note_created(n, cur)) >>

\* the entries of a trace without what the invocations did to the working copy
Shape(t) == [i \in 1..Len(t) |-> [t[i] EXCEPT !.wrote = FALSE]]

ThreeNotes(n, cur) ==
    <<note_checking(n), note_creating(n, cur), note_created(n, cur)>>

\* C11: a run that returned Ok logged exactly the three lines "checking",
\* "creating <name> from <current>", "<name> created from <current>", the
\* first before show-ref, the second between rev-parse --abbrev-ref and
\* checkout -b, the third after checkout -b; a run that did not return Ok
\* logged a strict prefix of them, in the same places, and never the third;
\* the second is logged only after current_branch returned Ok and the third
\* only after Repository::new_branch returned Ok.
C11_NotesInOrder ==
    \A p \in Procs :
        pc[p] # "idle" =>
            LET full == FullTrace(b_name[p], current_branch[p])
                three == ThreeNotes(b_name[p], current_branch[p])
            IN  /\ IsPrefix(Shape(trace[p]), full)
                /\ IsPrefix(notes[p], three)
                /\ pc[p] = "done" => notes[p] = three /\ Shape(trace[p]) = full
                /\ pc[p] # "done" => Len(notes[p]) < Len(three)
                /\ Len(notes[p]) >= 2 => rets[p][2].tag = "Ok"
                /\ Len(notes[p]) = 3 => rets[p][3].tag = "Ok"

\* a run that returned Ok with its three lines, and one that failed after two
C11_Witness ==
    /\ \E p \in Procs :
           /\ pc[p] = "done"
           /\ Len(notes[p]) = 3
           /\ notes[p][3] = note_created(b_name[p], current_branch[p])
    /\ \E p \in Procs :
           /\ pc[p] = "failed"
           /\ Len(notes[p]) = 2

\* C12: a run that returned an error returned the very Err, kind and text,
\* of the first Repository operation that returned one, every operation
\* before it having returned Ok; no Err of branch_exists, current_branch or
\* Repository::new_branch is followed by anything but that return.
C12_ErrorPropagatedUnchanged ==
    \A p \in Procs :
        /\ pc[p] = "failed" =>
               /\ Len(rets[p]) >= 1
               /\ rets[p][Len(rets[p])].tag = "Err"
               /\ \A i \in 1..(Len(rets[p]) - 1) : rets[p][i].tag = "Ok"
               /\ result[p] = rets[p][Len(rets[p])]
        /\ \A i \in 1..Len(rets[p]) :
               rets[p][i].tag = "Err" =>
                   /\ pc[p] = "failed"
                   /\ i = Len(rets[p])
                   /\ result[p].kind = rets[p][i].kind
                   /\ result[p].val = rets[p][i].val

\* a run whose checkout -b failed with a diagnostic, returned as it was
C12_Witness ==
    \E p \in Procs :
        /\ pc[p] = "failed"
        /\ Len(rets[p]) = 3
        /\ modes[p][3] = "diag"
        /\ result[p] = Err("InvalidData", <<Msg("fatal: failed"), NL>>)

\* C13: the text Repository::current_branch returns has no whitespace at
\* either end, and the source branch in the "creating" line of the log is the
\* very text handed to checkout -b as the start point.
C13_TrimmedSource ==
    \A p \in Procs :
        ( /\ isRepo
          /\ \A i \in 1..Len(modes[p]) : modes[p][i] = "normal"
          /\ Len(rets[p]) >= 2
          /\ rets[p][2].tag = "Ok" ) =>
            /\ rets[p][2].val = trim(rets[p][2].val)
            /\ \A i \in 1..Len(trace[p]) :
                   trace[p][i].cmd = "checkout" =>
                       notes[p][2] = note_creating(b_name[p], trace[p][i].text)

(***************************************************************************)
(* Properties of interleaved calls (SpecConc)                              *)
(***************************************************************************)
\* run p's checkout -b created its branch
Created(p) ==
    \E i \in 1..Len(trace[p]) : trace[p][i].cmd = "checkout" /\ trace[p][i].wrote

\* run p's existence query was answered and found no branch
Passed(p) ==
    /\ Len(rets[p]) >= 1
    /\ modes[p][1] = "normal"
    /\ rets[p][1] = Ok(<<>>)

\* C14: of two calls for the same name on the same working copy whose
\* existence checks both passed, at most one returns Ok and at most one
\* creates the branch; the one whose checkout -b ran when the other had
\* already created the branch returns the tool's error, never Ok.
C14_AtMostOneSucceeds ==
    \A p \in Procs : \A q \in Procs :
        ( /\ p # q
          /\ isRepo
          /\ b_name[p] = b_name[q]
          /\ Passed(p) /\ Passed(q) ) =>
            /\ ~(pc[p] = "done" /\ pc[q] = "done")
            /\ ~(Created(p) /\ Created(q))
            /\ ( /\ Len(rets[p]) = Len(Workflow)
                 /\ Created(q) /\ ~Created(p)
                 /\ b_name[p] \in post[p].branches ) =>
                   /\ pc[p] = "failed"
                   /\ result[p].tag = "Err"
                   /\ result[p] # AlreadyExists(b_name[p])

(***************************************************************************)
(* Termination (SpecLive)                                                  *)
(***************************************************************************)
\* C15: every call that was entered eventually has returned, Ok or an Err,
\* after at most three invocations, and what it returned never changes.
C15_ReachesOneTerminalState ==
    /\ \A p \in Procs : (pc[p] = "exists") ~> (pc[p] \in {"done", "failed"})
    /\ [](\A p \in Procs : Len(calls[p]) <= Len(Workflow))
    /\ [][\A p \in Procs :
              pc[p] \in {"done", "failed"} =>
                  (pc'[p] = pc[p] /\ result'[p] = result[p])]_vars

(***************************************************************************)
(* Detached HEAD (Spec)                                                    *)
(***************************************************************************)
\* the text names a branch
IsBranchName(t) ==
    /\ Len(t) = 1
    /\ t[1][1] = "name"
    /\ t[1][2] \in Names

\* C16: on a working copy whose HEAD is detached, current_branch returns an
\* Err and the call creates no branch; the start point handed to checkout -b
\* is always the name of a branch, never empty and never "HEAD".
C16_DetachedIsAnError ==
    \A p \in Procs :
        /\ ( /\ isRepo
             /\ pre[p].head = DETACHED
             /\ Len(rets[p]) >= 2
             /\ \A i \in 1..Len(modes[p]) : modes[p][i] = "normal" ) =>
               rets[p][2].tag = "Err"
        /\ (isRepo /\ pre[p].head = DETACHED /\ pc[p] # "idle") => ~Created(p)
        /\ \A i \in 1..Len(trace[p]) :
               trace[p][i].cmd = "checkout" => IsBranchName(trace[p][i].text)

====
